---- MODULE Spec2Model ----
(***************************************************************************)
(* peewee_versioned.VersionedModel: an entity table and its nested         *)
(* VersionModel table (the snapshots), driven by save, revert and          *)
(* delete_instance on Python instances of the entity.                      *)
(*                                                                         *)
(* The store is the two tables `rows` (entity) and `snaps` (VersionModel, *)
(* in primary-key order).  An instance is the Python object: its primary  *)
(* key, its one business field and peewee's dirty set.  Every operation   *)
(* is one step; `atomic()` is modelled by computing the outcome of the    *)
(* whole block and keeping it only when no statement of the block raised. *)
(* The store enforces the foreign key of line 60-63 (an insert naming a   *)
(* missing entity row raises, deleting the row sets the column to NULL)    *)
(* and never reissues a primary key.                                       *)
(*                                                                         *)
(* Time is the rank of a clock reading: the UTC clock reads `now`, the     *)
(* local clock `now + tz`, and `now` moves on by one with every operation  *)
(* that writes a version.                                                  *)
(*                                                                         *)
(* A run is one of two families, chosen in Init: one instance, a store     *)
(* that may fail in any statement, any field value and any clock offset;  *)
(* or two instances with one field value on a store that does not fail,   *)
(* with both clocks equal.  In these runs every operation is one step and  *)
(* txn stays idle.                                                         *)
(*                                                                         *)
(* SpecW runs two threads, each with its own instance of one stored        *)
(* entity, statement by statement: txn holds each thread's position and    *)
(* the uncommitted writes of its transaction.  The store gives read        *)
(* committed isolation (a SELECT sees the committed tables) and blocks a   *)
(* write to a row another transaction has written until that one ends.     *)
(***************************************************************************)
EXTENDS Integers, Sequences, FiniteSets, TLC

\* ---- bounds of the model
MaxSnaps == 3

\* Python instances of the entity class, values of its business field, and
\* the fixed difference datetime.now() - datetime.utcnow()
Entities == {"e1", "e2"}
Values == {"A", "B"}
Offsets == {-2, 0, 2}
Selectors == (1 - MaxSnaps)..(MaxSnaps - 1)
Failures == {"none", "row", "version"}

\* None as a primary key / foreign key, and as a business field value
NoId == 0
Null == "null"

\* the families of runs: the instances in use, whether the store may fail,
\* the values assigned to the business field, and the clock offset
Runs ==
    { [pool |-> {"e1"}, faults |-> TRUE, values |-> Values, tz |-> o] : o \in Offsets }
    \cup { [pool |-> Entities, faults |-> FALSE, values |-> {"A"}, tz |-> 0] }

VARIABLES rows, snaps, ent, now, nextId, run, last, txn

vars == <<rows, snaps, ent, now, nextId, run, last, txn>>

\* ---------------------------------------------------------------- queries

\* self._versions: the back-reference query, VersionModel rows whose
\* _original_record equals the instance's primary key.  peewee renders a
\* comparison with None as IS NULL, so NoId selects the ownerless rows.
_versions(S, id) == { i \in 1..Len(S) : S[i].owner = id }

\* bool(self._dirty)
is_dirty(inst) == inst.dirty

\* order_by(VersionModel._version_id) without desc(): ascending
RECURSIVE OrderByVersionAsc(_, _)
OrderByVersionAsc(S, V) ==
    IF V = {} THEN { <<>> }
    ELSE UNION { { <<i>> \o s : s \in OrderByVersionAsc(S, V \ {i}) } :
                 i \in { k \in V : \A j \in V : S[j].ver >= S[k].ver } }

\* every sequence that lists V by _version_id descending
RECURSIVE OrderByVersionDesc(_, _)
OrderByVersionDesc(S, V) ==
    IF V = {} THEN { <<>> }
    ELSE UNION { { <<i>> \o s : s \in OrderByVersionDesc(S, V \ {i}) } :
                 i \in { k \in V : \A j \in V : S[j].ver <= S[k].ver } }

\* _get_current_version that returns the first row when it finds several
_get_current_version_first(S, id) ==
    LET current_version == { i \in _versions(S, id) : S[i].until = <<>> }
    IN  IF current_version = {}
        THEN [err |-> "", cur |-> 0]
        ELSE [err |-> "", cur |-> CHOOSE i \in current_version : TRUE]

\* _get_current_version: the rows of self._versions with _valid_until NULL;
\* cur = 0 stands for None
_get_current_version(S, id) ==
    LET current_version == { i \in _versions(S, id) : S[i].until = <<>> }
    IN  IF Cardinality(current_version) = 1
        THEN [err |-> "", cur |-> CHOOSE i \in current_version : TRUE]
        ELSE IF current_version = {}
             THEN [err |-> "", cur |-> 0]
             ELSE [err |-> "RuntimeError", cur |-> 0]

\* _finalize_current_version that looks the current version up and leaves
\* it open
finalize_leaves_open(S, id, utcnow) ==
    [err |-> _get_current_version(S, id).err, snaps |-> S]

\* _finalize_current_version: stamp the current version with utcnow()
_finalize_current_version(S, id, utcnow) ==
    LET g == _get_current_version(S, id)
    IN  IF g.err # "" THEN [err |-> g.err, snaps |-> S]
        ELSE IF g.cur = 0 THEN [err |-> "", snaps |-> S]
        ELSE [err |-> "", snaps |-> [S EXCEPT ![g.cur].until = <<utcnow>>]]

\* new_version_id that reuses the highest _version_id
new_version_id_reused(S, id) ==
    LET first == CHOOSE s \in OrderByVersionDesc(S, _versions(S, id)) : TRUE
    IN  IF first = <<>> THEN 1 ELSE S[first[1]].ver

\* new_version_id of _create_new_version: one more than the highest
\* _version_id of self._versions, 1 when there is none
new_version_id(S, id) ==
    LET o == OrderByVersionDesc(S, _versions(S, id))
        first == CHOOSE s \in o : TRUE
    IN  IF first = <<>> THEN 1 ELSE S[first[1]].ver + 1

\* _create_new_version that copies the fields of the version it numbers
\* after instead of the instance's
_create_new_version_stale(S, inst, localnow) ==
    LET first == CHOOSE s \in OrderByVersionDesc(S, _versions(S, inst.id)) : TRUE
    IN  [from    |-> localnow,
         until   |-> <<>>,
         deleted |-> FALSE,
         ver     |-> new_version_id(S, inst.id),
         owner   |-> inst.id,
         orig    |-> inst.id,
         name    |-> IF first = <<>> THEN inst.name ELSE S[first[1]].name]

\* _create_new_version(save=False): the unsaved VersionModel instance.
\* _valid_from defaults to datetime.now(); orig remembers the owner the row
\* was created with (history variable, never read by an operation).
_create_new_version(S, inst, localnow) ==
    [from    |-> localnow,
     until   |-> <<>>,
     deleted |-> FALSE,
     ver     |-> new_version_id(S, inst.id),
     owner   |-> inst.id,
     orig    |-> inst.id,
     name    |-> inst.name]

\* new_version.save(): INSERT into the VersionModel table; the foreign key
\* is nullable, otherwise it must name an existing entity row
InsertVersion(S, R, v) ==
    IF v.owner # NoId /\ v.owner \notin DOMAIN R
    THEN [err |-> "IntegrityError", snaps |-> S]
    ELSE [err |-> "", snaps |-> Append(S, v)]

\* Model.save() that leaves the dirty set as it was
ModelSave_keeps_dirty(R, inst, nid) ==
    IF inst.id # NoId
    THEN [rows   |-> [i \in DOMAIN R |-> IF i = inst.id THEN inst.name ELSE R[i]],
          inst   |-> inst,
          nextId |-> nid]
    ELSE [rows   |-> [i \in DOMAIN R \cup {nid} |-> IF i = nid THEN inst.name ELSE R[i]],
          inst   |-> [inst EXCEPT !.id = nid],
          nextId |-> nid + 1]

\* peewee Model.save() of the entity: UPDATE by primary key when the
\* instance has one (no row, no effect), INSERT otherwise; then
\* self._dirty.clear()
ModelSave(R, inst, nid) ==
    IF inst.id # NoId
    THEN [rows   |-> [i \in DOMAIN R |-> IF i = inst.id THEN inst.name ELSE R[i]],
          inst   |-> [inst EXCEPT !.dirty = FALSE],
          nextId |-> nid]
    ELSE [rows   |-> [i \in DOMAIN R \cup {nid} |-> IF i = nid THEN inst.name ELSE R[i]],
          inst   |-> [inst EXCEPT !.dirty = FALSE, !.id = nid],
          nextId |-> nid + 1]

\* Model.delete_instance() on a foreign key with ON DELETE CASCADE: the
\* versions go with the row
ModelDelete_cascade(R, S, id) ==
    IF id \notin DOMAIN R THEN [rows |-> R, snaps |-> S]
    ELSE [rows  |-> [i \in DOMAIN R \ {id} |-> R[i]],
          snaps |-> SelectSeq(S, LAMBDA v : v.owner # id)]

\* peewee Model.delete_instance() of the entity: DELETE by primary key; the
\* foreign key's ON DELETE SET NULL clears the owner of its versions
ModelDelete(R, S, id) ==
    IF id \notin DOMAIN R THEN [rows |-> R, snaps |-> S]
    ELSE [rows  |-> [i \in DOMAIN R \ {id} |-> R[i]],
          snaps |-> [k \in 1..Len(S) |->
                        IF S[k].owner = id THEN [S[k] EXCEPT !.owner = NoId] ELSE S[k]]]

\* ------------------------------------------------------------- operations

\* VersionedModel.save on an entity instance.  fail names the statement the
\* store fails in: "row" the entity's own save, "version" the version
\* statements of the atomic block.
save(R, S, inst, nid, t, off, fail) ==
    IF ~is_dirty(inst)
    THEN IF fail # "none"
         THEN [rows |-> R, snaps |-> S, inst |-> inst, nextId |-> nid, err |-> "StoreFailure"]
         ELSE LET p == ModelSave(R, inst, nid)
              IN  [rows |-> p.rows, snaps |-> S, inst |-> p.inst, nextId |-> p.nextId, err |-> ""]
    ELSE IF fail = "row"
         THEN [rows |-> R, snaps |-> S, inst |-> inst, nextId |-> nid, err |-> "StoreFailure"]
         ELSE LET p == ModelSave(R, inst, nid)
                  f == _finalize_current_version(S, p.inst.id, t)
                  c == InsertVersion(f.snaps, p.rows, _create_new_version(f.snaps, p.inst, t + off))
                  e == IF f.err # "" THEN f.err
                       ELSE IF fail = "version" THEN "StoreFailure"
                       ELSE c.err
              IN  IF e # ""
                  THEN [rows |-> R, snaps |-> S, inst |-> p.inst, nextId |-> p.nextId, err |-> e]
                  ELSE [rows |-> p.rows, snaps |-> c.snaps, inst |-> p.inst,
                        nextId |-> p.nextId, err |-> ""]

\* delete_instance that saves the new version without setting _deleted
delete_instance_unmarked(R, S, inst, t, off, fail) ==
    LET f == _finalize_current_version(S, inst.id, t)
        c == InsertVersion(f.snaps, R, _create_new_version(f.snaps, inst, t + off))
        e == IF f.err # "" THEN f.err
             ELSE IF fail = "version" THEN "StoreFailure"
             ELSE c.err
        d == ModelDelete(R, c.snaps, inst.id)
    IN  IF e # "" THEN [rows |-> R, snaps |-> S, err |-> e]
        ELSE IF fail = "row" THEN [rows |-> R, snaps |-> c.snaps, err |-> "StoreFailure"]
        ELSE [rows |-> d.rows, snaps |-> d.snaps, err |-> ""]

\* VersionedModel.delete_instance on an entity instance: the atomic block
\* (finalize, new version with _deleted), then the entity's own delete
delete_instance(R, S, inst, t, off, fail) ==
    LET f == _finalize_current_version(S, inst.id, t)
        new_version == [_create_new_version(f.snaps, inst, t + off) EXCEPT !.deleted = TRUE]
        c == InsertVersion(f.snaps, R, new_version)
        e == IF f.err # "" THEN f.err
             ELSE IF fail = "version" THEN "StoreFailure"
             ELSE c.err
        d == ModelDelete(R, c.snaps, inst.id)
    IN  IF e # "" THEN [rows |-> R, snaps |-> S, err |-> e]
        ELSE IF fail = "row" THEN [rows |-> R, snaps |-> c.snaps, err |-> "StoreFailure"]
        ELSE [rows |-> d.rows, snaps |-> d.snaps, err |-> ""]

\* revert's lookup matching _version_id against version + 1
version_model_shifted(S, id, version) ==
    IF version >= 0
    THEN { i \in _versions(S, id) : S[i].ver = version + 1 }
    ELSE { s[1 - version] : s \in { q \in OrderByVersionDesc(S, _versions(S, id)) :
                                        Len(q) >= 1 - version } }

\* revert's lookup with offset(-version - 1): -1 is the current version
version_model_from_current(S, id, version) ==
    IF version >= 0
    THEN { i \in _versions(S, id) : S[i].ver = version }
    ELSE { s[0 - version] : s \in { q \in OrderByVersionDesc(S, _versions(S, id)) :
                                        Len(q) >= 0 - version } }

\* the version_model candidates of revert(version) for an int selector
version_model(S, id, version) ==
    IF version >= 0
    THEN { i \in _versions(S, id) : S[i].ver = version }
    ELSE { s[1 - version] : s \in { q \in OrderByVersionDesc(S, _versions(S, id)) :
                                        Len(q) >= 1 - version } }

\* the version_id property of an entity instance: the _version_id of the row
\* _get_current_version returns; val = 0 stands for None.  The attribute is
\* read off whatever the lookup returned, None included.
version_id(S, id) ==
    LET current_version == _get_current_version(S, id)
    IN  IF current_version.err # ""
        THEN [err |-> current_version.err, cur |-> 0, val |-> 0]
        ELSE IF current_version.cur = 0
             THEN [err |-> "AttributeError", cur |-> 0, val |-> 0]
             ELSE [err |-> "", cur |-> current_version.cur, val |-> S[current_version.cur].ver]

\* ----------------------------------------------------------- state machine

\* Entity(name=v), or Entity() with no field given when v is Null: no
\* primary key yet, and only a field that was assigned is dirty
Entity(v) == [id |-> NoId, name |-> v, dirty |-> v # Null]

\* the record of the operation just run: the operation, its instance, its
\* selector, the exception it raised ("" for none), the version revert
\* resolved (0 for none), the number of versions it inserted, and whether
\* it is a save that follows a save of the same instance that returned
\* normally, with nothing in between
Did(op, e, sel, err, vm, n) ==
    [op |-> op, e |-> e, sel |-> sel, err |-> err, vm |-> vm, n |-> n,
     again |-> op = "save" /\ last.op = "save" /\ last.e = e /\ last.err = ""]

\* the clock after an operation that leaves the version table as S
Clock(S) == IF S # snaps THEN now + 1 ELSE now

\* a thread that is inside neither save nor delete_instance: no statement
\* of a transaction run yet, nothing read, nothing written
Idle == [pc |-> "idle", op |-> "", row |-> <<>>, cur |-> 0, seen |-> <<>>,
         upd |-> <<>>, new |-> <<>>]

Init ==
    /\ rows = <<>>
    /\ snaps = <<>>
    /\ run \in Runs
    /\ ent \in [Entities -> {Entity(v) : v \in run.values \cup {Null}}]
    /\ \A e \in Entities \ run.pool : ent[e] = Entity(Null)
    /\ now = 0
    /\ nextId = 1
    /\ last = [op |-> "init", e |-> "e1", sel |-> 0, err |-> "", vm |-> 0, n |-> 0,
               again |-> FALSE]
    /\ txn = [e \in Entities |-> Idle]

\* instance.name = v
Assign(e, v) ==
    /\ e \in run.pool
    /\ v \in run.values
    /\ txn[e].pc = "idle"
    /\ ent' = [ent EXCEPT ![e].name = v, ![e].dirty = TRUE]
    /\ last' = Did("assign", e, 0, "", 0, 0)
    /\ UNCHANGED <<rows, snaps, now, nextId, run, txn>>

Save(e, fail) ==
    /\ e \in run.pool
    /\ fail # "none" => run.faults
    /\ is_dirty(ent[e]) => Len(snaps) < MaxSnaps
    /\ ~is_dirty(ent[e]) => fail # "version"
    /\ LET r == save(rows, snaps, ent[e], nextId, now, run.tz, fail)
       IN  /\ rows' = r.rows
           /\ snaps' = r.snaps
           /\ nextId' = r.nextId
           /\ ent' = [ent EXCEPT ![e] = r.inst]
           /\ last' = Did("save", e, 0, r.err, 0, Len(r.snaps) - Len(snaps))
           /\ now' = Clock(r.snaps)
    /\ UNCHANGED <<run, txn>>

Revert(e, sel, fail) ==
    /\ e \in run.pool
    /\ fail # "none" => run.faults
    /\ Len(snaps) < MaxSnaps
    /\ LET found == version_model(snaps, ent[e].id, sel)
       IN  IF found = {}
           THEN /\ fail = "none"
                /\ last' = Did("revert", e, sel,
                               IF sel >= 0 THEN "DoesNotExist" ELSE "IndexError", 0, 0)
                /\ UNCHANGED <<rows, snaps, nextId, ent, now>>
           ELSE \E vm \in found :
                LET r == save(rows, snaps, [ent[e] EXCEPT !.name = snaps[vm].name, !.dirty = TRUE],
                              nextId, now, run.tz, fail)
                IN  /\ rows' = r.rows
                    /\ snaps' = r.snaps
                    /\ nextId' = r.nextId
                    /\ ent' = [ent EXCEPT ![e] = r.inst]
                    /\ last' = Did("revert", e, sel, r.err, vm, Len(r.snaps) - Len(snaps))
                    /\ now' = Clock(r.snaps)
    /\ UNCHANGED <<run, txn>>

Delete(e, fail) ==
    /\ e \in run.pool
    /\ fail # "none" => run.faults
    /\ Len(snaps) < MaxSnaps
    /\ LET r == delete_instance(rows, snaps, ent[e], now, run.tz, fail)
       IN  /\ rows' = r.rows
           /\ snaps' = r.snaps
           /\ last' = Did("delete", e, 0, r.err, 0, Len(r.snaps) - Len(snaps))
           /\ now' = Clock(r.snaps)
    /\ UNCHANGED <<nextId, ent, run, txn>>

Next ==
    \/ \E e \in Entities, v \in Values : Assign(e, v)
    \/ \E e \in Entities, fail \in Failures : Save(e, fail)
    \/ \E e \in Entities, sel \in Selectors, fail \in Failures : Revert(e, sel, fail)
    \/ \E e \in Entities, fail \in Failures : Delete(e, fail)

Spec == Init /\ [][Next]_vars

\* ------------------------------------------------ runs that read version_id

\* instance.version_id: the record of the read keeps, besides the row the
\* lookup resolved (vm), the value returned (val)
VersionId(e) ==
    /\ e \in run.pool
    /\ LET r == version_id(snaps, ent[e].id)
       IN  last' = [op |-> "version_id", e |-> e, sel |-> 0, err |-> r.err, vm |-> r.cur,
                    n |-> 0, again |-> FALSE, val |-> r.val]
    /\ UNCHANGED <<rows, snaps, ent, now, nextId, run, txn>>

NextR ==
    \/ Next
    \/ \E e \in Entities : VersionId(e)

SpecR == Init /\ [][NextR]_vars

\* --------------------------------------------------- two threads, one entity

\* another transaction holds the lock of the entity row of e's instance: it
\* has run the UPDATE of line 118 and not ended yet
RowLocked(e) ==
    \E w \in Entities \ {e} : txn[w].row # <<>> /\ ent[w].id = ent[e].id

\* another transaction holds the lock of version row i: it has run the
\* UPDATE of line 274 on it and not ended yet
VersionLocked(e, i) ==
    \E w \in Entities \ {e} : txn[w].upd # <<>> /\ txn[w].cur = i

\* the versions built inside atomic blocks that have not ended yet
Pending == { w \in Entities : txn[w].new # <<>> }

\* an exception leaves the atomic block of e: its writes are dropped, its
\* locks released, and the exception leaves the operation
Rollback(e, err) ==
    /\ txn' = [txn EXCEPT ![e] = Idle]
    /\ last' = Did(txn[e].op, e, 0, err, 0, 0)
    /\ UNCHANGED <<rows, snaps, now>>

\* the store both threads start from: an instance with its field set went
\* through its first save, and each thread holds an instance of that row
InitW ==
    /\ run = [pool |-> Entities, faults |-> FALSE, values |-> {"A"}, tz |-> 0]
    /\ \E v \in run.values :
          LET r == save(<<>>, <<>>, Entity(v), 1, 0, run.tz, "none")
          IN  /\ rows = r.rows
              /\ snaps = r.snaps
              /\ nextId = r.nextId
              /\ ent = [e \in Entities |-> r.inst]
              /\ now = Len(r.snaps)
    /\ last = [op |-> "init", e |-> "e1", sel |-> 0, err |-> "", vm |-> 0, n |-> 0,
               again |-> FALSE]
    /\ txn = [e \in Entities |-> Idle]

\* save, first statement.  Not dirty (line 113): the UPDATE of the row in a
\* transaction of its own.  Dirty (lines 116-118): atomic() begins and the
\* UPDATE of the row waits for the row's lock, then holds it.
WSave(e) ==
    /\ txn[e].pc = "idle"
    /\ ~RowLocked(e)
    /\ LET p == ModelSave(rows, ent[e], nextId)
       IN  IF ~is_dirty(ent[e])
           THEN /\ rows' = p.rows
                /\ last' = Did("save", e, 0, "", 0, 0)
                /\ UNCHANGED <<ent, txn>>
           ELSE /\ txn' = [txn EXCEPT ![e] = [Idle EXCEPT !.pc = "get", !.op = "save",
                                                          !.row = <<ent[e].name>>]]
                /\ ent' = [ent EXCEPT ![e] = p.inst]
                /\ UNCHANGED <<rows, last>>
    /\ UNCHANGED <<snaps, now, nextId, run>>

\* delete_instance, line 129: atomic() begins
WDelete(e) ==
    /\ txn[e].pc = "idle"
    /\ txn' = [txn EXCEPT ![e] = [Idle EXCEPT !.pc = "get", !.op = "delete"]]
    /\ UNCHANGED <<rows, snaps, ent, now, nextId, run, last>>

\* _finalize_current_version, line 271: the SELECT of _get_current_version
\* on the committed table; the thread keeps the row it read
WGetCurrent(e) ==
    /\ txn[e].pc = "get"
    /\ LET g == _get_current_version(snaps, ent[e].id)
       IN  IF g.err # "" THEN Rollback(e, g.err)
           ELSE /\ txn' = [txn EXCEPT ![e].cur = g.cur,
                                      ![e].seen = IF g.cur = 0 THEN <<>> ELSE <<snaps[g.cur]>>,
                                      ![e].pc = IF g.cur = 0 THEN "create" ELSE "close"]
                /\ UNCHANGED <<rows, snaps, now, last>>
    /\ UNCHANGED <<ent, nextId, run>>

\* _finalize_current_version, lines 273-274: current_version.save() is an
\* UPDATE by primary key of every column of the row as it was read, with
\* _valid_until = utcnow(); it waits for the row's lock, and raises when
\* the owner it writes back names an entity row that is gone
WClose(e) ==
    /\ txn[e].pc = "close"
    /\ ~VersionLocked(e, txn[e].cur)
    /\ LET seen == txn[e].seen[1]
       IN  IF seen.owner # NoId /\ seen.owner \notin DOMAIN rows
           THEN Rollback(e, "IntegrityError")
           ELSE /\ txn' = [txn EXCEPT ![e].upd = <<[seen EXCEPT !.until = <<now>>]>>,
                                      ![e].pc = "create"]
                /\ UNCHANGED <<rows, snaps, now, last>>
    /\ UNCHANGED <<ent, nextId, run>>

\* _create_new_version up to its save: the SELECT of the highest
\* _version_id on the committed table and the new VersionModel instance;
\* delete_instance sets _deleted on it (line 136)
WCreate(e) ==
    /\ txn[e].pc = "create"
    /\ Len(snaps) + Cardinality(Pending) < MaxSnaps
    /\ LET new_version == _create_new_version(snaps, ent[e], now + run.tz)
       IN  txn' = [txn EXCEPT ![e].new = <<[new_version EXCEPT
                                               !.deleted = (txn[e].op = "delete")]>>,
                              ![e].pc = "insert"]
    /\ UNCHANGED <<rows, snaps, ent, now, nextId, run, last>>

\* new_version.save(): the INSERT, checked against the foreign key
WInsert(e) ==
    /\ txn[e].pc = "insert"
    /\ LET c == InsertVersion(snaps, rows, txn[e].new[1])
       IN  IF c.err # "" THEN Rollback(e, c.err)
           ELSE /\ txn' = [txn EXCEPT ![e].pc = "commit"]
                /\ UNCHANGED <<rows, snaps, now, last>>
    /\ UNCHANGED <<ent, nextId, run>>

\* the atomic block ends: the transaction's writes reach the committed
\* tables and its locks are released; delete_instance goes on to line 140
WCommit(e) ==
    /\ txn[e].pc = "commit"
    /\ rows' = IF txn[e].row = <<>> THEN rows
               ELSE ModelSave(rows, [ent[e] EXCEPT !.name = txn[e].row[1]], nextId).rows
    /\ snaps' = Append(IF txn[e].upd = <<>> THEN snaps
                       ELSE [snaps EXCEPT ![txn[e].cur] = txn[e].upd[1]],
                       txn[e].new[1])
    /\ txn' = [txn EXCEPT ![e] = IF txn[e].op = "delete"
                                 THEN [Idle EXCEPT !.pc = "row", !.op = "delete"]
                                 ELSE Idle]
    /\ last' = Did(IF txn[e].op = "delete" THEN "commit" ELSE "save", e, 0, "", 0, 1)
    /\ now' = now + 1
    /\ UNCHANGED <<ent, nextId, run>>

\* delete_instance, line 140: the DELETE of the entity row in a transaction
\* of its own; it waits for the lock of the row and of the version rows
\* whose owner it clears
WDeleteRow(e) ==
    /\ txn[e].pc = "row"
    /\ ~RowLocked(e)
    /\ \A i \in _versions(snaps, ent[e].id) : ~VersionLocked(e, i)
    /\ LET d == ModelDelete(rows, snaps, ent[e].id)
       IN  /\ rows' = d.rows
           /\ snaps' = d.snaps
    /\ txn' = [txn EXCEPT ![e] = Idle]
    /\ last' = Did("delete", e, 0, "", 0, 0)
    /\ UNCHANGED <<ent, now, nextId, run>>

NextW ==
    \/ \E e \in Entities, v \in Values : Assign(e, v)
    \/ \E e \in Entities : WSave(e)
    \/ \E e \in Entities : WDelete(e)
    \/ \E e \in Entities : WGetCurrent(e)
    \/ \E e \in Entities : WClose(e)
    \/ \E e \in Entities : WCreate(e)
    \/ \E e \in Entities : WInsert(e)
    \/ \E e \in Entities : WCommit(e)
    \/ \E e \in Entities : WDeleteRow(e)

SpecW == InitW /\ [][NextW]_vars

\* ------------------------------------------------------------- vocabulary

\* the primary keys the store has issued
Ids == 1..(nextId - 1)

\* the versions of S that belong or belonged to entity id
History(S, id) == { i \in 1..Len(S) : S[i].orig = id }

\* the versions of S that entity id owns now and that are open
Open(S, id) == { i \in _versions(S, id) : S[i].until = <<>> }

\* the _version_id values of the versions V of S
VersionIds(S, V) == { S[i].ver : i \in V }

\* ------------------------------------------------------------------ claims

\* C1: the versions that belong or belonged to one entity carry the
\* version numbers 1..N, each once, and a version with a higher number has
\* a valid_from that is not earlier than that of a version with a lower one.
C1_DenseOrderedVersions ==
    \A id \in Ids :
        LET H == History(snaps, id)
        IN  /\ VersionIds(snaps, H) = 1..Cardinality(H)
            /\ \A i, j \in H : snaps[i].ver < snaps[j].ver => snaps[i].from <= snaps[j].from

\* C1 witness: a delete has just completed on an entity whose history then
\* holds three versions made at three different times (save, save or
\* revert, delete).
C1_Witness ==
    /\ last.op = "delete" /\ last.err = ""
    /\ LET H == History(snaps, ent[last.e].id)
       IN  /\ ent[last.e].id # NoId
           /\ Cardinality(H) = 3
           /\ \E i, j \in H : snaps[i].from < snaps[j].from

\* C2: every entity owns at most one version whose valid_until is unset.
C2_AtMostOneOpen ==
    \A id \in Ids : Cardinality(Open(snaps, id)) <= 1

\* C2 witness: a save has just added a version to an entity that already
\* had one, so that it owns a closed version and an open one.
C2_Witness ==
    /\ last.op = "save" /\ last.err = "" /\ last.n = 1
    /\ LET id == ent[last.e].id
       IN  /\ Cardinality(_versions(snaps, id)) >= 2
           /\ Cardinality(Open(snaps, id)) = 1
           /\ \E i \in _versions(snaps, id) : snaps[i].until # <<>>

\* C3 as claimed: every entity whose row is in the store owns exactly one
\* open version, the first save included whether or not a field is dirty.
C3_RowHasOneOpen ==
    \A id \in DOMAIN rows : Cardinality(Open(snaps, id)) = 1

\* C4: a save that directly follows a completed save of the same instance,
\* with no assignment in between, inserts no version, closes none and
\* leaves the current version number as it was, so the two saves together
\* insert what the first one inserted, at most one version.
C4_SecondSaveAddsNothing ==
    [][\A e \in Entities, f \in Failures :
          (/\ last'.op = "save" /\ last'.e = e
           /\ last.op = "save" /\ last.e = e /\ last.err = ""
           /\ Save(e, f))
             => /\ snaps' = snaps
                /\ last'.n = 0 /\ last.n + last'.n <= 1
                /\ VersionIds(snaps', Open(snaps', ent'[e].id))
                      = VersionIds(snaps, Open(snaps, ent[e].id))
      ]_vars

\* C4 witness: the second of two saves in a row has returned and the
\* entity's history holds exactly one version, still open.
C4_Witness ==
    /\ last.op = "save" /\ last.again /\ last.err = ""
    /\ LET H == History(snaps, ent[last.e].id)
       IN  /\ ent[last.e].id # NoId
           /\ Cardinality(H) = 1
           /\ \A i \in H : snaps[i].until = <<>> /\ snaps[i].ver = 1

\* C5 as claimed: a save of a stored entity whose field was just assigned
\* the value the store already holds inserts no version, closes none and
\* does not raise the version number.
C5_EqualAssignmentAddsNothing ==
    [][\A e \in Entities, f \in Failures :
          (/\ last.op = "assign" /\ last.e = e
           /\ ent[e].id \in DOMAIN rows
           /\ rows[ent[e].id] = ent[e].name
           /\ last'.op = "save" /\ last'.e = e
           /\ Save(e, f))
             => /\ snaps' = snaps
                /\ VersionIds(snaps', Open(snaps', ent'[e].id))
                      = VersionIds(snaps, Open(snaps, ent[e].id))
      ]_vars

\* C6: a revert(e, k) that returns, with k > 0 the number of one of the N
\* versions of e, leaves e and its row with the field of version k, appends
\* an open version N+1 with that field, and changes neither the field nor
\* the number of any version that existed before.
C6_RevertAppends ==
    [][\A e \in Entities, k \in Selectors, f \in Failures :
          LET id == ent[e].id
              H == History(snaps, id)
              src == { i \in H : snaps[i].ver = k }
          IN  (/\ last'.op = "revert" /\ last'.e = e /\ last'.sel = k /\ last'.err = ""
               /\ k > 0 /\ id # NoId /\ src # {}
               /\ Revert(e, k, f))
                 => /\ last'.vm \in src
                    /\ \A i \in src : ent'[e].name = snaps[i].name /\ rows'[id] = snaps[i].name
                    /\ Len(snaps') = Len(snaps) + 1
                    /\ LET new == snaps'[Len(snaps')]
                       IN  /\ new.ver = Cardinality(H) + 1
                           /\ new.until = <<>>
                           /\ new.owner = id
                           /\ ~new.deleted
                           /\ \A i \in src : new.name = snaps[i].name
                    /\ \A i \in 1..Len(snaps) :
                          snaps'[i].name = snaps[i].name /\ snaps'[i].ver = snaps[i].ver
      ]_vars

\* C6 witness: a revert to the current version has returned: the version it
\* resolved is the one just below the new open version, and an older
\* version exists too.
C6_Witness ==
    /\ last.op = "revert" /\ last.err = "" /\ last.sel > 0 /\ last.vm # 0
    /\ snaps[last.vm].orig = ent[last.e].id
    /\ snaps[last.vm].ver = last.sel
    /\ snaps[Len(snaps)].ver = last.sel + 1
    /\ last.sel >= 2

\* C7: on a stored entity that owns versions 1..N with N the open one,
\* revert(e, -k) resolves version N-k when 1 <= k < N (and a revert that
\* returns leaves e with that version's field), and raises the not-found
\* error, changing nothing, when k >= N.
C7_RelativeRevert ==
    [][\A e \in Entities, sel \in Selectors, f \in Failures :
          LET id == ent[e].id
              V == _versions(snaps, id)
              N == Cardinality(V)
              k == 0 - sel
          IN  (/\ last'.op = "revert" /\ last'.e = e /\ last'.sel = sel
               /\ sel < 0 /\ id \in DOMAIN rows /\ N >= 1
               /\ VersionIds(snaps, V) = 1..N
               /\ VersionIds(snaps, Open(snaps, id)) = {N}
               /\ Revert(e, sel, f))
                 => IF k < N
                    THEN /\ last'.vm \in V
                         /\ snaps[last'.vm].ver = N - k
                         /\ last'.err = "" => ent'[e].name = snaps[last'.vm].name
                    ELSE /\ last'.err = "IndexError"
                         /\ UNCHANGED <<rows, snaps, ent>>
      ]_vars

\* C7 witness: revert(e, -1) has returned on an entity that owned two
\* versions, and resolved its version 1.
C7_Witness ==
    /\ last.op = "revert" /\ last.err = "" /\ last.sel = 0 - 1
    /\ last.vm # 0
    /\ snaps[last.vm].owner = ent[last.e].id
    /\ snaps[last.vm].ver = 1
    /\ Cardinality(_versions(snaps, ent[last.e].id)) = 3

\* C8 as claimed: for a negative selector -k on a stored entity, revert
\* takes the k-th version counted from 1 in descending order of version
\* number (k-1 versions are above it), and raises the not-found error
\* exactly when the entity owns fewer than k versions.
C8_TakesKth ==
    [][\A e \in Entities, sel \in Selectors, f \in Failures :
          LET V == _versions(snaps, ent[e].id)
              k == 0 - sel
          IN  (/\ last'.op = "revert" /\ last'.e = e /\ last'.sel = sel
               /\ sel < 0 /\ ent[e].id \in DOMAIN rows
               /\ Revert(e, sel, f))
                 => IF Cardinality(V) < k
                    THEN last'.err = "IndexError"
                    ELSE /\ last'.vm \in V
                         /\ Cardinality({ j \in V : snaps[j].ver > snaps[last'.vm].ver }) = k - 1
      ]_vars

\* C8 amended: for a negative selector -k, revert skips the k highest
\* versions of the instance's _versions and takes the next one (k versions
\* are above it), and raises the not-found error, changing nothing, exactly
\* when there are at most k versions.
C8_SkipsK ==
    [][\A e \in Entities, sel \in Selectors, f \in Failures :
          LET V == _versions(snaps, ent[e].id)
              k == 0 - sel
          IN  (/\ last'.op = "revert" /\ last'.e = e /\ last'.sel = sel
               /\ sel < 0
               /\ Revert(e, sel, f))
                 => IF Cardinality(V) <= k
                    THEN /\ last'.err = "IndexError"
                         /\ UNCHANGED <<rows, snaps, ent>>
                    ELSE /\ last'.err # "IndexError"
                         /\ last'.vm \in V
                         /\ Cardinality({ j \in V : snaps[j].ver > snaps[last'.vm].ver }) <= k
                         /\ Cardinality({ j \in V : snaps[j].ver >= snaps[last'.vm].ver }) > k
      ]_vars

\* C8 witness: revert(e, -1) has raised the not-found error on a stored
\* entity that owns exactly one version.
C8_Witness ==
    /\ last.op = "revert" /\ last.sel = 0 - 1 /\ last.err = "IndexError"
    /\ ent[last.e].id \in DOMAIN rows
    /\ Cardinality(_versions(snaps, ent[last.e].id)) = 1

\* C9 as claimed: after a delete that returns on an entity with N versions
\* the row is gone, the N versions are still there, a version N+1 with
\* deleted set was added, and the _versions query of the instance still
\* lists these N+1 versions.
C9_HistoryStillListed ==
    [][\A e \in Entities, f \in Failures :
          LET id == ent[e].id
              H == History(snaps, id)
          IN  (/\ last'.op = "delete" /\ last'.e = e /\ last'.err = ""
               /\ id # NoId
               /\ Delete(e, f))
                 => /\ id \notin DOMAIN rows'
                    /\ Len(snaps') = Len(snaps) + 1
                    /\ snaps'[Len(snaps')].deleted
                    /\ snaps'[Len(snaps')].ver = Cardinality(H) + 1
                    /\ _versions(snaps', id) = History(snaps', id)
      ]_vars

\* C9 amended: after a delete that returns on an entity with N versions the
\* row is gone, the N versions are still there with their numbers, fields,
\* valid_from and deleted flags, an open version N+1 with deleted set was
\* added, the store has cleared the owner of all N+1, and the _versions
\* query of the instance lists none of them.
C9_HistoryOrphaned ==
    [][\A e \in Entities, f \in Failures :
          LET id == ent[e].id
              H == History(snaps, id)
          IN  (/\ last'.op = "delete" /\ last'.e = e /\ last'.err = ""
               /\ id # NoId
               /\ Delete(e, f))
                 => /\ id \in DOMAIN rows /\ id \notin DOMAIN rows'
                    /\ Len(snaps') = Len(snaps) + 1
                    /\ \A i \in 1..Len(snaps) :
                          /\ snaps'[i].ver = snaps[i].ver
                          /\ snaps'[i].name = snaps[i].name
                          /\ snaps'[i].from = snaps[i].from
                          /\ snaps'[i].deleted = snaps[i].deleted
                          /\ snaps'[i].orig = snaps[i].orig
                    /\ LET new == snaps'[Len(snaps')]
                       IN  /\ new.deleted
                           /\ new.ver = Cardinality(H) + 1
                           /\ new.orig = id
                           /\ new.until = <<>>
                    /\ Cardinality(History(snaps', id)) = Cardinality(H) + 1
                    /\ \A i \in History(snaps', id) : snaps'[i].owner = NoId
                    /\ _versions(snaps', id) = {}
      ]_vars

\* C9 witness: a delete has returned on an entity that had two versions:
\* its row is gone and its history holds three versions.
C9_Witness ==
    /\ last.op = "delete" /\ last.err = ""
    /\ ent[last.e].id # NoId
    /\ ent[last.e].id \notin DOMAIN rows
    /\ Cardinality(History(snaps, ent[last.e].id)) = 3
    /\ \E i \in History(snaps, ent[last.e].id) : snaps[i].deleted /\ snaps[i].ver = 3

\* C10 as claimed: a delete that raises, in whichever of its three steps,
\* leaves the entity table and the version table as they were.
C10_DeleteAllOrNothing ==
    [][\A e \in Entities, f \in Failures :
          (last'.op = "delete" /\ last'.e = e /\ last'.err # "" /\ Delete(e, f)) => rows' = rows /\ snaps' = snaps
      ]_vars

\* C11 as claimed: a save that raises, in whichever statement, leaves the
\* entity table and the version table as they were; and no save of a stored
\* entity that owns an open version reaches a state in which the row is
\* updated but its new version is missing, or the old version is closed but
\* no new one is open.
C11_SaveAllOrNothing ==
    [][\A e \in Entities, f \in Failures :
          LET id == ent[e].id
          IN  (/\ last'.op = "save" /\ last'.e = e
               /\ id \in DOMAIN rows /\ Open(snaps, id) # {}
               /\ Save(e, f))
                 => /\ last'.err # "" => rows' = rows /\ snaps' = snaps
                    /\ rows'[id] # rows[id] =>
                          /\ Len(snaps') = Len(snaps) + 1
                          /\ snaps'[Len(snaps')].owner = id
                          /\ snaps'[Len(snaps')].name = rows'[id]
                    /\ Open(snaps', id) # {}
      ]_vars

\* C12: when the entity owns more than one open version, the lookup of save
\* and of delete raises the consistency error and the operation ends there:
\* no version is closed or created, the row is neither changed nor removed.
\* When it owns none, the lookup returns None without error and the
\* operation goes on to create its version.
C12_LookupFailsOnSeveral ==
    [][\A e \in Entities :
          LET id == ent[e].id
              open == Open(snaps, id)
          IN  (txn[e].pc = "get" /\ WGetCurrent(e))
                 => /\ Cardinality(open) > 1 =>
                          /\ last'.err = "RuntimeError" /\ last'.e = e
                          /\ last'.op = txn[e].op
                          /\ txn'[e] = Idle
                          /\ rows' = rows /\ snaps' = snaps
                    /\ open = {} =>
                          /\ last' = last
                          /\ txn'[e].cur = 0 /\ txn'[e].upd = <<>>
                          /\ txn'[e].pc = "create"
                          /\ rows' = rows /\ snaps' = snaps
      ]_vars

\* C12 witness: a save has just raised the consistency error on an entity
\* that owns two open versions, and its row is in the store.
C12_Witness ==
    /\ last.op = "save" /\ last.err = "RuntimeError"
    /\ txn[last.e] = Idle
    /\ ent[last.e].id \in DOMAIN rows
    /\ Cardinality(Open(snaps, ent[last.e].id)) = 2

\* C13 as claimed: a read of version_id raises nothing and returns None when
\* the instance's entity owns no open version (before its first save, after
\* its delete); on a stored entity that owns an open version it returns
\* that version's number, the highest of the entity's history.
C13_VersionIdOrNone ==
    [][\A e \in Entities :
          LET id == ent[e].id
              open == Open(snaps, id)
          IN  (last'.op = "version_id" /\ last'.e = e /\ VersionId(e))
                 => /\ open = {} => last'.err = "" /\ last'.val = 0
                    /\ (id \in DOMAIN rows /\ open # {}) =>
                          /\ last'.err = ""
                          /\ last'.vm \in open
                          /\ last'.val = snaps[last'.vm].ver
                          /\ \A i \in History(snaps, id) : snaps[i].ver <= last'.val
      ]_vars

C15_DeletedIsTerminal ==
    /\ [][Len(snaps') > Len(snaps) /\ snaps'[Len(snaps')].deleted => last'.op = "delete"]_vars
    /\ [](\A i \in 1..Len(snaps) :
             (~run.faults /\ snaps[i].deleted /\ snaps[i].orig # NoId) =>
                /\ snaps[i].until = <<>>
                /\ \A j \in History(snaps, snaps[i].orig) :
                      /\ snaps[j].ver <= snaps[i].ver
                      /\ snaps[j].deleted => j = i)

\* C16 as claimed: with two threads running save and delete_instance on one
\* entity, in every committed state the entity's history holds at most one
\* open version and no two of its versions share a version number.
C16_CommittedHistoryConsistent ==
    \A id \in Ids :
        LET H == History(snaps, id)
        IN  /\ Cardinality({ i \in H : snaps[i].until = <<>> }) <= 1
            /\ \A i, j \in H : snaps[i].ver = snaps[j].ver => i = j

\* C17: a save that returns, of a dirty instance whose stored entity has a
\* history of N >= 1 versions, changes exactly one existing version, the
\* open one with number N, by setting its valid_until to the time of the
\* save, and appends exactly one version: number N+1, valid_until unset,
\* not deleted, owned by the entity, with the instance's field, which is
\* also the row's.  The row is saved first: when the version statements
\* raise, the instance has already been through Model.save().
C17_SaveClosesAndAppends ==
    [][\A e \in Entities, f \in Failures :
          LET id == ent[e].id
              H == History(snaps, id)
              N == Cardinality(H)
          IN  (/\ last'.op = "save" /\ last'.e = e
               /\ is_dirty(ent[e]) /\ id \in DOMAIN rows /\ N >= 1
               /\ Save(e, f))
                 => /\ last'.err = "" =>
                          /\ Len(snaps') = Len(snaps) + 1
                          /\ \E i \in H :
                                /\ snaps[i].ver = N
                                /\ snaps[i].until = <<>>
                                /\ snaps'[i] = [snaps[i] EXCEPT !.until = <<now>>]
                                /\ \A j \in (1..Len(snaps)) \ {i} : snaps'[j] = snaps[j]
                          /\ LET new == snaps'[Len(snaps')]
                             IN  /\ new.ver = N + 1
                                 /\ new.until = <<>>
                                 /\ ~new.deleted
                                 /\ new.owner = id
                                 /\ new.name = ent[e].name
                                 /\ rows'[id] = new.name
                    /\ (last'.err # "" /\ f = "version") =>
                          /\ ~is_dirty(ent'[e])
                          /\ rows' = rows /\ snaps' = snaps
      ]_vars

\* C17 witness: a save has just returned after an assignment that changed
\* the field: version 1 is closed and version 2, open, holds the new value.
C17_Witness ==
    /\ last.op = "save" /\ last.err = "" /\ last.n = 1
    /\ Len(snaps) = 2
    /\ snaps[1].ver = 1 /\ snaps[1].until # <<>>
    /\ snaps[2].ver = 2 /\ snaps[2].until = <<>>
    /\ snaps[2].owner = ent[last.e].id /\ snaps[1].orig = snaps[2].orig
    /\ snaps[2].name # snaps[1].name
    /\ snaps[2].name = rows[ent[last.e].id]

\* C18 as claimed: in every state, after completed and failed operations
\* alike, the field of a stored row equals the field of every open version
\* its entity owns.
C18_RowMatchesOpenVersion ==
    \A id \in DOMAIN rows :
        \A i \in Open(snaps, id) : snaps[i].name = rows[id]

\* C19 as claimed: a save, revert, delete or version_id read on an instance
\* leaves every version that belongs or belonged to another entity as it
\* was, and the version a revert or a read resolves belongs to the
\* instance's own entity.
C19_OtherHistoriesUntouched ==
    [][\A e \in Entities :
          (last'.e = e /\ last'.op \in {"save", "revert", "delete", "version_id"})
             => /\ \A i \in 1..Len(snaps) :
                      (snaps[i].orig # NoId /\ snaps[i].orig # ent[e].id)
                         => i <= Len(snaps') /\ snaps'[i] = snaps[i]
                /\ last'.vm # 0 => snaps[last'.vm].orig = ent[e].id
      ]_vars

\* C20 as claimed: whatever the offset between the local clock (valid_from)
\* and the UTC clock (valid_until), every closed version of an entity's
\* history has valid_from <= valid_until, and its valid_until is not later
\* than the valid_from of the version with the next number.
C20_IntervalsWellFormed ==
    \A id \in Ids :
        LET H == History(snaps, id)
        IN  \A i \in H :
                snaps[i].until # <<>> =>
                   /\ snaps[i].from <= snaps[i].until[1]
                   /\ \A j \in H : snaps[j].ver = snaps[i].ver + 1
                                      => snaps[i].until[1] <= snaps[j].from

====
